---- MODULE Spec2Model ----
(***************************************************************************)
(* Model of the reconciliation engine of reconciliation_standalone.py:     *)
(* calculate_severity and reconcile_positions.                             *)
(*                                                                         *)
(* Numbers.  Quantities, prices and market values are integers (whole      *)
(* shares, whole currency units).  A percentage is the exact quotient the  *)
(* code computes, held as a fraction [num, den] with den > 0, so that the  *)
(* comparisons against the tolerances and the severity bands are exact.    *)
(* The input values below were chosen where binary floating point gives    *)
(* the same comparison results as exact arithmetic.                        *)
(*                                                                         *)
(* A DataFrame is the sequence of its rows; only the columns the engine    *)
(* reads (symbol, account_id, quantity, price, market_value) are kept.     *)
(* The free-text 'details' field of a break is not modelled.  Symbols and   *)
(* account ids hold no '|', so the joined pos_key names one (symbol,       *)
(* account_id) pair.                                                       *)
(***************************************************************************)
EXTENDS Integers, Sequences, FiniteSets, TLC

VARIABLES internal_df, pb_df, pc, iter, breaks, returned, calls

vars == <<internal_df, pb_df, pc, iter, breaks, returned, calls>>

(***************************************************************************)
(* Bounds of the model.                                                    *)
(***************************************************************************)
MaxRows == 2
MaxRuns == 2

(***************************************************************************)
(* Arithmetic helpers: Python's abs, /, *, > and round(x, 2) on the        *)
(* numbers of the engine.                                                  *)
(***************************************************************************)
abs(x) == IF x < 0 THEN -x ELSE x

Rat(n) == [num |-> n, den |-> 1]

\* a / b for b # 0, sign carried by the numerator
Quot(a, b) == IF b > 0 THEN [num |-> a, den |-> b] ELSE [num |-> -a, den |-> -b]

Times(r, k) == [num |-> r.num * k, den |-> r.den]

rabs(r) == [num |-> abs(r.num), den |-> r.den]

GT(r, s) == r.num * s.den > s.num * r.den

\* round(r, 2): the nearest hundredth, ties to the even hundredth
round2(r) ==
    LET scaled == r.num * 100
        q == scaled \div r.den
        rem == scaled % r.den
        h == IF 2 * rem > r.den THEN q + 1
             ELSE IF 2 * rem < r.den THEN q
             ELSE IF q % 2 = 0 THEN q ELSE q + 1
    IN [num |-> h, den |-> 100]

(***************************************************************************)
(* Enums and configuration.                                                *)
(***************************************************************************)
BreakType ==
    [QUANTITY_MISMATCH |-> "Quantity Mismatch",
     PRICE_MISMATCH |-> "Price Mismatch",
     MARKET_VALUE_MISMATCH |-> "Market Value Mismatch",
     MISSING_IN_SOURCE |-> "Missing in Source",
     MISSING_IN_TARGET |-> "Missing in Target"]

Severity ==
    [CRITICAL |-> "CRITICAL", HIGH |-> "HIGH", MEDIUM |-> "MEDIUM", LOW |-> "LOW"]

TOLERANCES ==
    [quantity_pct |-> Rat(1),
     price_pct |-> [num |-> 1, den |-> 10],
     market_value_pct |-> Rat(2),
     min_threshold |-> 100]

(***************************************************************************)
(* calculate_severity                                                      *)
(***************************************************************************)
\* faulty variant: the bands compared with >= instead of >
calculate_severity_ge(variance, variance_pct) ==
    LET abs_var == abs(variance)
        abs_pct == rabs(variance_pct)
    IN IF abs_var >= 100000 \/ ~GT(Rat(10), abs_pct) THEN Severity.CRITICAL
       ELSE IF abs_var >= 50000 \/ ~GT(Rat(5), abs_pct) THEN Severity.HIGH
       ELSE IF abs_var >= 10000 \/ ~GT(Rat(2), abs_pct) THEN Severity.MEDIUM
       ELSE Severity.LOW

\* faulty variant: the dollar variance used without abs()
calculate_severity_noabs(variance, variance_pct) ==
    LET abs_var == variance
        abs_pct == rabs(variance_pct)
    IN IF abs_var > 100000 \/ GT(abs_pct, Rat(10)) THEN Severity.CRITICAL
       ELSE IF abs_var > 50000 \/ GT(abs_pct, Rat(5)) THEN Severity.HIGH
       ELSE IF abs_var > 10000 \/ GT(abs_pct, Rat(2)) THEN Severity.MEDIUM
       ELSE Severity.LOW

\* faulty variant: dollar and percentage conditions joined by "and"
calculate_severity_and(variance, variance_pct) ==
    LET abs_var == abs(variance)
        abs_pct == rabs(variance_pct)
    IN IF abs_var > 100000 /\ GT(abs_pct, Rat(10)) THEN Severity.CRITICAL
       ELSE IF abs_var > 50000 /\ GT(abs_pct, Rat(5)) THEN Severity.HIGH
       ELSE IF abs_var > 10000 /\ GT(abs_pct, Rat(2)) THEN Severity.MEDIUM
       ELSE Severity.LOW

calculate_severity(variance, variance_pct) ==
    LET abs_var == abs(variance)
        abs_pct == rabs(variance_pct)
    IN IF abs_var > 100000 \/ GT(abs_pct, Rat(10)) THEN Severity.CRITICAL
       ELSE IF abs_var > 50000 \/ GT(abs_pct, Rat(5)) THEN Severity.HIGH
       ELSE IF abs_var > 10000 \/ GT(abs_pct, Rat(2)) THEN Severity.MEDIUM
       ELSE Severity.LOW

(***************************************************************************)
(* reconcile_positions: helpers                                            *)
(***************************************************************************)
\* df['symbol'] + '|' + df['account_id']
pos_key(row) == row.symbol \o "|" \o row.account_id

\* set(df['pos_key'])
key_set(df) == {pos_key(df[i]) : i \in 1..Len(df)}

internal_keys == key_set(internal_df)
pb_keys == key_set(pb_df)
missing_in_pb == internal_keys \ pb_keys
missing_in_internal == pb_keys \ internal_keys
common_keys == internal_keys \cap pb_keys

\* df[df['pos_key'] == key].iloc[0]
iloc0(df, key) ==
    df[CHOOSE i \in 1..Len(df) :
          /\ pos_key(df[i]) = key
          /\ \A j \in 1..Len(df) : pos_key(df[j]) = key => i <= j]

\* f"{n:04d}" as a sequence of characters
DigitChar == <<"0", "1", "2", "3", "4", "5", "6", "7", "8", "9">>

RECURSIVE Digits(_)
Digits(n) ==
    IF n < 10 THEN <<DigitChar[n + 1]>>
    ELSE Append(Digits(n \div 10), DigitChar[(n % 10) + 1])

RECURSIVE ZeroPad(_, _)
ZeroPad(s, width) == IF Len(s) >= width THEN s ELSE ZeroPad(<<"0">> \o s, width)

\* f"BRK-{n:04d}"
brk(n) == <<"B", "R", "K", "-">> \o ZeroPad(Digits(n), 4)

\* faulty variant: the counter taken as len(breaks), without the + 1
new_break_id_len(brks) == brk(Len(brks))

\* f"BRK-{len(breaks)+1:04d}"
new_break_id(brks) == brk(Len(brks) + 1)

\* (var / base) * 100 if base != 0 else 0
\* faulty variant: a zero base counted as a full 100% variance
var_pct_unguarded(var, base) ==
    IF base # 0 THEN Times(Quot(var, base), 100) ELSE Rat(100)

var_pct(var, base) ==
    IF base # 0 THEN Times(Quot(var, base), 100) ELSE Rat(0)

\* the break appended by the loop over missing_in_pb
\* faulty variant: variance_pct of a missing position left at 0
missing_in_target_break_zero(brks, pos) ==
    [break_id |-> new_break_id(brks),
     break_type |-> BreakType.MISSING_IN_TARGET,
     severity |-> calculate_severity(pos.market_value, Rat(100)),
     symbol |-> pos.symbol,
     account_id |-> pos.account_id,
     internal_value |-> pos.market_value,
     pb_value |-> 0,
     variance |-> Rat(pos.market_value),
     variance_pct |-> Rat(0)]

missing_in_target_break(brks, pos) ==
    [break_id |-> new_break_id(brks),
     break_type |-> BreakType.MISSING_IN_TARGET,
     severity |-> calculate_severity(pos.market_value, Rat(100)),
     symbol |-> pos.symbol,
     account_id |-> pos.account_id,
     internal_value |-> pos.market_value,
     pb_value |-> 0,
     variance |-> Rat(pos.market_value),
     variance_pct |-> Rat(100)]

\* the break appended by the loop over missing_in_internal
missing_in_source_break(brks, pos) ==
    [break_id |-> new_break_id(brks),
     break_type |-> BreakType.MISSING_IN_SOURCE,
     severity |-> calculate_severity(pos.market_value, Rat(100)),
     symbol |-> pos.symbol,
     account_id |-> pos.account_id,
     internal_value |-> 0,
     pb_value |-> pos.market_value,
     variance |-> Rat(-pos.market_value),
     variance_pct |-> Rat(-100)]

\* "Check quantity": the list after the quantity check of one matched pair
\* faulty variant: the quantity tolerance compared with >=
check_quantity_ge(brks, int_pos, pb_pos) ==
    LET qty_var == int_pos.quantity - pb_pos.quantity
        qty_var_pct == var_pct(qty_var, int_pos.quantity)
        dollar_impact == abs(qty_var * int_pos.price)
    IN IF ~GT(TOLERANCES.quantity_pct, rabs(qty_var_pct))
       THEN Append(brks,
                [break_id |-> new_break_id(brks),
                 break_type |-> BreakType.QUANTITY_MISMATCH,
                 severity |-> calculate_severity(dollar_impact, qty_var_pct),
                 symbol |-> int_pos.symbol,
                 account_id |-> int_pos.account_id,
                 internal_value |-> int_pos.quantity,
                 pb_value |-> pb_pos.quantity,
                 variance |-> Rat(qty_var),
                 variance_pct |-> round2(qty_var_pct)])
       ELSE brks

check_quantity(brks, int_pos, pb_pos) ==
    LET qty_var == int_pos.quantity - pb_pos.quantity
        qty_var_pct == var_pct(qty_var, int_pos.quantity)
        dollar_impact == abs(qty_var * int_pos.price)
    IN IF GT(rabs(qty_var_pct), TOLERANCES.quantity_pct)
       THEN Append(brks,
                [break_id |-> new_break_id(brks),
                 break_type |-> BreakType.QUANTITY_MISMATCH,
                 severity |-> calculate_severity(dollar_impact, qty_var_pct),
                 symbol |-> int_pos.symbol,
                 account_id |-> int_pos.account_id,
                 internal_value |-> int_pos.quantity,
                 pb_value |-> pb_pos.quantity,
                 variance |-> Rat(qty_var),
                 variance_pct |-> round2(qty_var_pct)])
       ELSE brks

\* "Check price"
check_price(brks, int_pos, pb_pos) ==
    LET price_var == int_pos.price - pb_pos.price
        price_var_pct == var_pct(price_var, int_pos.price)
        dollar_impact == abs(price_var * int_pos.quantity)
    IN IF GT(rabs(price_var_pct), TOLERANCES.price_pct)
       THEN Append(brks,
                [break_id |-> new_break_id(brks),
                 break_type |-> BreakType.PRICE_MISMATCH,
                 severity |-> calculate_severity(dollar_impact, price_var_pct),
                 symbol |-> int_pos.symbol,
                 account_id |-> int_pos.account_id,
                 internal_value |-> int_pos.price,
                 pb_value |-> pb_pos.price,
                 variance |-> round2(Rat(price_var)),
                 variance_pct |-> round2(price_var_pct)])
       ELSE brks

\* "Check market value"
\* faulty variant: the two market-value conditions joined by "or"
check_market_value_or(brks, int_pos, pb_pos) ==
    LET mv_var == int_pos.market_value - pb_pos.market_value
        mv_var_pct == var_pct(mv_var, int_pos.market_value)
    IN IF \/ GT(rabs(mv_var_pct), TOLERANCES.market_value_pct)
          \/ abs(mv_var) > TOLERANCES.min_threshold
       THEN Append(brks,
                [break_id |-> new_break_id(brks),
                 break_type |-> BreakType.MARKET_VALUE_MISMATCH,
                 severity |-> calculate_severity(mv_var, mv_var_pct),
                 symbol |-> int_pos.symbol,
                 account_id |-> int_pos.account_id,
                 internal_value |-> int_pos.market_value,
                 pb_value |-> pb_pos.market_value,
                 variance |-> round2(Rat(mv_var)),
                 variance_pct |-> round2(mv_var_pct)])
       ELSE brks

check_market_value(brks, int_pos, pb_pos) ==
    LET mv_var == int_pos.market_value - pb_pos.market_value
        mv_var_pct == var_pct(mv_var, int_pos.market_value)
    IN IF /\ GT(rabs(mv_var_pct), TOLERANCES.market_value_pct)
          /\ abs(mv_var) > TOLERANCES.min_threshold
       THEN Append(brks,
                [break_id |-> new_break_id(brks),
                 break_type |-> BreakType.MARKET_VALUE_MISMATCH,
                 severity |-> calculate_severity(mv_var, mv_var_pct),
                 symbol |-> int_pos.symbol,
                 account_id |-> int_pos.account_id,
                 internal_value |-> int_pos.market_value,
                 pb_value |-> pb_pos.market_value,
                 variance |-> round2(Rat(mv_var)),
                 variance_pct |-> round2(mv_var_pct)])
       ELSE brks

\* the body of the loop over common_keys, the three checks in order
compare_pair(brks, int_pos, pb_pos) ==
    check_market_value(
        check_price(check_quantity(brks, int_pos, pb_pos), int_pos, pb_pos),
        int_pos, pb_pos)

(***************************************************************************)
(* Inputs: the two position snapshots.                                     *)
(***************************************************************************)
Symbols == {"AAPL", "MSFT"}
Accounts == {"HEDGE_FUND_01"}

\* (quantity, price, market_value) of the positions tried, at and around
\* the tolerances: 1% of quantity, 0.1% of price, 2% and 100 of market value.
\* The second symbol is there to have two keys in a category; it takes two
\* of the positions.
PositionValues ==
    [AAPL |-> { <<100, 1000, 100>>, <<101, 1001, 5000>>, <<0, 0, 0>>, <<102, 1002, 5101>> },
     MSFT |-> { <<100, 1000, 100>>, <<0, 0, 0>> }]

Rows ==
    UNION { { [symbol |-> s, account_id |-> a,
               quantity |-> v[1], price |-> v[2], market_value |-> v[3]] :
                 a \in Accounts, v \in PositionValues[s] } : s \in Symbols }

Snapshots == UNION { [1..n -> Rows] : n \in 0..MaxRows }

(***************************************************************************)
(* reconcile_positions as a state machine.  pc is the position in the      *)
(* function, iter the keys the running for loop has not visited yet.  A    *)
(* Python set of strings has no fixed iteration order (it follows the      *)
(* per-process string hashes), so each loop takes any unvisited key next.  *)
(* returned holds the lists returned by the runs made so far on the same   *)
(* two snapshots; a later run is another execution of the program on the   *)
(* same data, with its own hash seed.                                      *)
(***************************************************************************)
Init ==
    /\ internal_df \in Snapshots
    /\ pb_df \in Snapshots
    /\ pc = "idle"
    /\ iter = {}
    /\ breaks = <<>>
    /\ returned = <<>>
    /\ calls = <<>>

\* entry: breaks = [], the key sets, the first loop starts
Start ==
    /\ pc \in {"idle", "done"}
    /\ Len(returned) < MaxRuns
    /\ breaks' = <<>>
    /\ iter' = missing_in_pb
    /\ pc' = "missing_in_pb"
    /\ UNCHANGED <<internal_df, pb_df, returned, calls>>

\* one iteration of: for key in missing_in_pb
MissingInTarget ==
    /\ pc = "missing_in_pb"
    /\ \E key \in iter :
          /\ breaks' = Append(breaks, missing_in_target_break(breaks, iloc0(internal_df, key)))
          /\ iter' = iter \ {key}
    /\ UNCHANGED <<internal_df, pb_df, pc, returned, calls>>

EndMissingInTarget ==
    /\ pc = "missing_in_pb"
    /\ iter = {}
    /\ iter' = missing_in_internal
    /\ pc' = "missing_in_internal"
    /\ UNCHANGED <<internal_df, pb_df, breaks, returned, calls>>

\* one iteration of: for key in missing_in_internal
MissingInSource ==
    /\ pc = "missing_in_internal"
    /\ \E key \in iter :
          /\ breaks' = Append(breaks, missing_in_source_break(breaks, iloc0(pb_df, key)))
          /\ iter' = iter \ {key}
    /\ UNCHANGED <<internal_df, pb_df, pc, returned, calls>>

EndMissingInSource ==
    /\ pc = "missing_in_internal"
    /\ iter = {}
    /\ iter' = common_keys
    /\ pc' = "common"
    /\ UNCHANGED <<internal_df, pb_df, breaks, returned, calls>>

\* one iteration of: for key in common_keys
CompareCommon ==
    /\ pc = "common"
    /\ \E key \in iter :
          /\ breaks' = compare_pair(breaks, iloc0(internal_df, key), iloc0(pb_df, key))
          /\ iter' = iter \ {key}
    /\ UNCHANGED <<internal_df, pb_df, pc, returned, calls>>

\* return breaks
Return ==
    /\ pc = "common"
    /\ iter = {}
    /\ returned' = Append(returned, breaks)
    /\ pc' = "done"
    /\ UNCHANGED <<internal_df, pb_df, iter, breaks, calls>>

Next ==
    \/ Start
    \/ MissingInTarget
    \/ EndMissingInTarget
    \/ MissingInSource
    \/ EndMissingInSource
    \/ CompareCommon
    \/ Return

Spec == Init /\ [][Next]_vars

(***************************************************************************)
(* calculate_severity on its own: calls holds the last two calls made,     *)
(* each with its arguments and its result.                                 *)
(***************************************************************************)
Variances ==
    { s * m : s \in {-1, 1}, m \in {0, 10000, 10001, 50000, 50001, 100000, 100001} }

\* percentages in tenths: 2.0, 2.1, 5.0, 5.1, 10.0, 10.1 and their negatives
Percents ==
    { [num |-> s * m, den |-> 10] : s \in {-1, 1}, m \in {0, 20, 21, 50, 51, 100, 101} }

SevInit ==
    /\ internal_df = <<>>
    /\ pb_df = <<>>
    /\ pc = "idle"
    /\ iter = {}
    /\ breaks = <<>>
    /\ returned = <<>>
    /\ calls = <<>>

Classify ==
    /\ \E v \in Variances, p \in Percents :
          LET call == [variance |-> v, variance_pct |-> p,
                       result |-> calculate_severity(v, p)]
          IN calls' = IF calls = <<>> THEN <<call>> ELSE <<calls[Len(calls)], call>>
    /\ UNCHANGED <<internal_df, pb_df, pc, iter, breaks, returned>>

SevNext == Classify

SpecSeverity == SevInit /\ [][SevNext]_vars

(***************************************************************************)
(* Properties.  The definitions below restate the expected behaviour from  *)
(* the inputs, in integer arithmetic, without using the operators above.   *)
(***************************************************************************)
Done == pc = "done"

KeyOfRow(r) == <<r.symbol, r.account_id>>
KeyOfBreak(b) == <<b.symbol, b.account_id>>
KeysOf(df) == {KeyOfRow(df[i]) : i \in 1..Len(df)}
SourceKeys == KeysOf(internal_df)
TargetKeys == KeysOf(pb_df)
MatchedKeys == SourceKeys \cap TargetKeys

\* the rows of df with key k, and the one the engine reads (the first)
RowsWith(df, k) == SelectSeq(df, LAMBDA r : KeyOfRow(r) = k)
FirstWith(df, k) == Head(RowsWith(df, k))
MarketValuesOf(df, k) == {RowsWith(df, k)[i].market_value : i \in 1..Len(RowsWith(df, k))}

\* positions in the current list of the breaks of key k, and those of one type
BreaksOf(k) == {i \in 1..Len(breaks) : KeyOfBreak(breaks[i]) = k}
BreaksOfType(k, type) == {i \in BreaksOf(k) : breaks[i].break_type = type}

HasDuplicateKeys(df) ==
    \E i, j \in 1..Len(df) : i # j /\ KeyOfRow(df[i]) = KeyOfRow(df[j])

Magnitude(x) == IF x >= 0 THEN x ELSE 0 - x

\* the number written by a sequence of digit characters
DigitValue(ch) == CHOOSE d \in 0..9 : DigitChar[d + 1] = ch
RECURSIVE NumberOf(_)
NumberOf(s) ==
    IF s = <<>> THEN 0
    ELSE 10 * NumberOf(SubSeq(s, 1, Len(s) - 1)) + DigitValue(s[Len(s)])

IsBreakIdOf(id, i) ==
    /\ Len(id) = 8
    /\ SubSeq(id, 1, 4) = <<"B", "R", "K", "-">>
    /\ \A c \in 5..8 : \E d \in 1..10 : DigitChar[d] = id[c]
    /\ NumberOf(SubSeq(id, 5, 8)) = i

SequentialIds(list) ==
    /\ \A i \in 1..Len(list) : IsBreakIdOf(list[i].break_id, i)
    /\ \A i, j \in 1..Len(list) : i # j => list[i].break_id # list[j].break_id

\* C1: the i-th break of the list built (and of every list returned) has
\* break_id "BRK-" followed by i zero-padded to 4 digits; the ids are unique
\* and run 1..N without gaps, in list order.
C1_BreakIdsSequential ==
    /\ SequentialIds(breaks)
    /\ \A r \in 1..Len(returned) : SequentialIds(returned[r])

\* a run that returned four or more breaks
C1_Witness == Done /\ Len(breaks) >= 4

\* C2: when a run returns, every key present only in the source has exactly
\* one break, of type Missing in Target, with source value the market value
\* of the position, target value 0, variance the market value and
\* variance_pct 100; every key present only in the target has exactly one
\* break, Missing in Source, with source value 0, target value the market
\* value, variance minus the market value and variance_pct -100.
C2_MissingBreaks ==
    Done =>
      /\ \A k \in SourceKeys \ TargetKeys :
            /\ Cardinality(BreaksOf(k)) = 1
            /\ \A i \in BreaksOf(k) :
                  /\ breaks[i].break_type = "Missing in Target"
                  /\ breaks[i].internal_value \in MarketValuesOf(internal_df, k)
                  /\ breaks[i].pb_value = 0
                  /\ breaks[i].variance.num = breaks[i].internal_value * breaks[i].variance.den
                  /\ breaks[i].variance_pct.num = 100 * breaks[i].variance_pct.den
      /\ \A k \in TargetKeys \ SourceKeys :
            /\ Cardinality(BreaksOf(k)) = 1
            /\ \A i \in BreaksOf(k) :
                  /\ breaks[i].break_type = "Missing in Source"
                  /\ breaks[i].internal_value = 0
                  /\ breaks[i].pb_value \in MarketValuesOf(pb_df, k)
                  /\ breaks[i].variance.num = (0 - breaks[i].pb_value) * breaks[i].variance.den
                  /\ breaks[i].variance_pct.num = (0 - 100) * breaks[i].variance_pct.den

\* a run returned with one key only in the source and one only in the target
C2_Witness ==
    /\ Done
    /\ SourceKeys \ TargetKeys # {}
    /\ TargetKeys \ SourceKeys # {}

SameValues(s, t) ==
    /\ s.quantity = t.quantity
    /\ s.price = t.price
    /\ s.market_value = t.market_value

\* C3: when a run returns, a key present in both snapshots whose source and
\* target rows have the same quantity, price and market value has no break;
\* and the same snapshot given as source and target returns no break at all.
C3_IdenticalNoBreak ==
    Done =>
      /\ \A k \in MatchedKeys :
            SameValues(FirstWith(internal_df, k), FirstWith(pb_df, k)) => BreaksOf(k) = {}
      /\ internal_df = pb_df => breaks = <<>>

\* a run returned on one two-row snapshot given as both source and target
C3_Witness == Done /\ internal_df = pb_df /\ Len(internal_df) >= 2 /\ breaks = <<>>

\* C10: when a run returns, a matched pair has exactly one Quantity Mismatch
\* break if the source quantity is not 0 and the quantity variance exceeds
\* 1% of it in absolute value, and none otherwise (none when the source
\* quantity is 0, whatever the target quantity).
C10_QuantityBreak ==
    Done =>
      \A k \in MatchedKeys :
        LET s == FirstWith(internal_df, k)
            t == FirstWith(pb_df, k)
            over == /\ s.quantity # 0
                    /\ Magnitude(s.quantity - t.quantity) * 100 > Magnitude(s.quantity)
        IN Cardinality(BreaksOfType(k, "Quantity Mismatch")) = IF over THEN 1 ELSE 0

\* a run returned on a matched pair with source quantity 0 and another target quantity
C10_Witness ==
    /\ Done
    /\ \E k \in MatchedKeys :
          /\ FirstWith(internal_df, k).quantity = 0
          /\ FirstWith(pb_df, k).quantity # 0

\* the market-value condition of a matched pair: over 2% and over 100
MarketValueOver(s, t) ==
    /\ s.market_value # 0
    /\ Magnitude(s.market_value - t.market_value) * 100 > 2 * Magnitude(s.market_value)
    /\ Magnitude(s.market_value - t.market_value) > 100

\* C6: when a run returns, a matched pair has a Market Value Mismatch break
\* only if the variance exceeds both 2% of the source market value and 100
\* in absolute value; in particular none when the absolute variance is at
\* most 100.
C6_MarketValueFloor ==
    Done =>
      \A k \in MatchedKeys :
        LET s == FirstWith(internal_df, k)
            t == FirstWith(pb_df, k)
        IN /\ BreaksOfType(k, "Market Value Mismatch") # {} => MarketValueOver(s, t)
           /\ Magnitude(s.market_value - t.market_value) <= 100
                 => BreaksOfType(k, "Market Value Mismatch") = {}

\* a run returned on a matched pair whose market values differ by 100 or
\* less and by more than 2%
C6_Witness ==
    /\ Done
    /\ \E k \in MatchedKeys :
        LET s == FirstWith(internal_df, k)
            t == FirstWith(pb_df, k)
        IN /\ s.market_value # 0
           /\ Magnitude(s.market_value - t.market_value) <= 100
           /\ Magnitude(s.market_value - t.market_value) * 100 > 2 * Magnitude(s.market_value)

\* C7: every Missing in Target and Missing in Source break has severity
\* CRITICAL, whatever the market value of the position.
C7_MissingIsCritical ==
    \A i \in 1..Len(breaks) :
      breaks[i].break_type \in {"Missing in Target", "Missing in Source"}
        => breaks[i].severity = "CRITICAL"

\* a run returned breaks for a missing position of market value 0 and for
\* one of market value 100
C7_Witness ==
    /\ Done
    /\ \E i, j \in 1..Len(breaks) :
          /\ breaks[i].break_type = "Missing in Target"
          /\ breaks[i].internal_value = 0
          /\ breaks[j].break_type = "Missing in Source"
          /\ breaks[j].pb_value = 100

\* C8: a snapshot with two rows of the same position key makes the run fail
\* instead of returning a break list.
C8_DuplicateKeysFailFast ==
    (HasDuplicateKeys(internal_df) \/ HasDuplicateKeys(pb_df)) => (~Done /\ returned = <<>>)

\* what each run reports: which break_id goes with which position and type
Assignment(list) ==
    [i \in 1..Len(list) |->
        <<list[i].break_id, list[i].symbol, list[i].account_id, list[i].break_type>>]

\* C9: two runs on the same pair of snapshots return the same sequence of
\* breaks: each break_id goes with the same (symbol, account_id, break_type).
C9_Reproducible ==
    \A r1, r2 \in 1..Len(returned) : Assignment(returned[r1]) = Assignment(returned[r2])

(***************************************************************************)
(* Properties of calculate_severity, on the recorded calls.                *)
(***************************************************************************)
SeverityTable ==
    << [tier |-> "CRITICAL", dollars |-> 100000, percent |-> 10],
       [tier |-> "HIGH", dollars |-> 50000, percent |-> 5],
       [tier |-> "MEDIUM", dollars |-> 10000, percent |-> 2] >>

Tiers == {"CRITICAL", "HIGH", "MEDIUM", "LOW"}

Rank(tier) ==
    CASE tier = "LOW" -> 0 [] tier = "MEDIUM" -> 1 [] tier = "HIGH" -> 2 [] tier = "CRITICAL" -> 3

\* the first row of the table that the absolute values exceed, LOW if none
FirstMatch(v, p) ==
    LET hits == {n \in 1..Len(SeverityTable) :
                    \/ Magnitude(v) > SeverityTable[n].dollars
                    \/ Magnitude(p.num) > SeverityTable[n].percent * p.den}
    IN IF hits = {} THEN "LOW"
       ELSE SeverityTable[CHOOSE n \in hits : \A m \in hits : n <= m].tier

SameMagnitudes(a, b) ==
    /\ Magnitude(a.variance) = Magnitude(b.variance)
    /\ Magnitude(a.variance_pct.num) * b.variance_pct.den
         = Magnitude(b.variance_pct.num) * a.variance_pct.den

\* C4: every call returns a tier, the first row of the table that the
\* absolute values strictly exceed (LOW when none does); two calls whose
\* arguments differ only in sign return the same tier.
C4_SeverityTable ==
    /\ \A n \in 1..Len(calls) :
          /\ calls[n].result \in Tiers
          /\ calls[n].result = FirstMatch(calls[n].variance, calls[n].variance_pct)
    /\ \A m, n \in 1..Len(calls) :
          SameMagnitudes(calls[m], calls[n]) => calls[m].result = calls[n].result

\* calls at exactly 100000 and -100000 with percentage 0, both HIGH
C4_Witness ==
    /\ Len(calls) = 2
    /\ calls[1].variance = 100000
    /\ calls[2].variance = 0 - 100000
    /\ calls[1].variance_pct.num = 0
    /\ calls[2].variance_pct.num = 0
    /\ calls[1].result = "HIGH"
    /\ calls[2].result = "HIGH"

NoLarger(a, b) ==
    /\ Magnitude(a.variance) <= Magnitude(b.variance)
    /\ Magnitude(a.variance_pct.num) * b.variance_pct.den
         <= Magnitude(b.variance_pct.num) * a.variance_pct.den

\* C5: of two calls, the one whose absolute variance and absolute percentage
\* are both no larger does not get the higher tier.
C5_SeverityMonotonic ==
    \A m, n \in 1..Len(calls) :
      NoLarger(calls[m], calls[n]) => Rank(calls[m].result) <= Rank(calls[n].result)

\* two calls with the same percentage, the second with the larger absolute
\* variance of opposite sign and the higher tier
C5_Witness ==
    /\ Len(calls) = 2
    /\ calls[1].variance_pct = calls[2].variance_pct
    /\ calls[1].variance > 0
    /\ calls[2].variance < 0
    /\ Magnitude(calls[1].variance) < Magnitude(calls[2].variance)
    /\ Rank(calls[1].result) < Rank(calls[2].result)

====
